---------------------------- MODULE Spec2Model ----------------------------
(***************************************************************************)
(* Pyramid (Match-13) Solitaire: the rules engine of pyramid.py           *)
(* (Card, Deck, Pyramid, Move, GameState) as a state machine.  The state  *)
(* is the GameState object; every action is one call of one of its        *)
(* commands, together with the arguments and the value it returned.       *)
(***************************************************************************)
EXTENDS Integers, Sequences, FiniteSets

(***************************************************************************)
(* Cards                                                                   *)
(***************************************************************************)
RANKS == <<"A", "2", "3", "4", "5", "6", "7", "8", "9", "10", "J", "Q", "K">>

SUITS == <<"C", "D", "H", "S">>

VALUES ==
    [r \in {RANKS[i] : i \in 1..Len(RANKS)} |->
        CHOOSE i \in 1..Len(RANKS) : RANKS[i] = r]

Card(rank, suit) == [rank |-> rank, suit |-> suit]

\* Python's None, for an empty pyramid cell and an absent card.
None == [rank |-> "None", suit |-> "None"]

value(card) == VALUES[card.rank]

\* Sequence helpers for Python's list operations.
Last(s) == s[Len(s)]

ButLast(s) == SubSeq(s, 1, Len(s) - 1)

Reverse(s) == [i \in 1..Len(s) |-> s[Len(s) - i + 1]]

(***************************************************************************)
(* Deck                                                                    *)
(***************************************************************************)
\* [Card(rank, suit) for suit in SUITS for rank in RANKS]
UnshuffledDeck ==
    [i \in 1..(Len(SUITS) * Len(RANKS)) |->
        Card(RANKS[((i - 1) % Len(RANKS)) + 1], SUITS[((i - 1) \div Len(RANKS)) + 1])]

\* The seeds games are constructed with (GameState(seed, max_redeals)).
Seeds == {12040}

\* The redeal limits games are constructed with.
MaxRedealsValues == {0, 1}

\* random.Random(seed).shuffle(cards): position i of the shuffled list holds
\* the card that was at position ShuffleOrder(seed)[i] of the unshuffled one
\* (the permutation CPython's Mersenne Twister produces for that seed).
ShuffleOrder(s) ==
    CASE s = 12040 ->
        <<9, 44, 51, 19, 52, 30, 46, 50, 40, 34, 26, 17, 31,
          36, 6, 2, 45, 32, 15, 8, 49, 10, 39, 18, 28, 14,
          12, 42, 41, 24, 21, 7, 20, 37, 1, 13, 5, 23, 38,
          29, 16, 47, 27, 33, 3, 4, 35, 48, 11, 43, 22, 25>>

\* Deck(seed).cards after __init__: the unshuffled list, shuffled.
Deck(s) == [i \in 1..Len(UnshuffledDeck) |-> UnshuffledDeck[ShuffleOrder(s)[i]]]

\* [deck.deal() for _ in range(n)]: deal() pops the last card of the list.
deal(cards, n) == [i \in 1..n |-> cards[Len(cards) - i + 1]]

(***************************************************************************)
(* Pyramid                                                                 *)
(***************************************************************************)
\* range(1, 8): seven rows, row r (from 0) holding r + 1 cells.
PyramidRows == 7

\* The number of cards reset() deals into the pyramid.
PyramidCards == 28

\* has_won() compares removed_count with this.
WinCount == 28

\* The cells <<row, col>> of the pyramid.
Cells == {rc \in (0..(PyramidRows - 1)) \X (0..(PyramidRows - 1)) : rc[2] <= rc[1]}

\* Pyramid.__init__: the cards fill the rows in order, next(iterator, None).
Pyramid(cards) ==
    [rows |-> [rc \in Cells |->
                 LET k == (rc[1] * (rc[1] + 1)) \div 2 + rc[2] + 1
                 IN  IF k <= Len(cards) THEN cards[k] ELSE None],
     removed |-> [rc \in Cells |-> FALSE]]

card_at(pyr, row, col) == pyr.rows[<<row, col>>]

\* Pyramid.remove_card: the pyramid after the call (the card returned is
\* card_at before it).
remove_card(pyr, row, col) ==
    IF pyr.rows[<<row, col>>] # None
    THEN [pyr EXCEPT !.rows[<<row, col>>] = None, !.removed[<<row, col>>] = TRUE]
    ELSE pyr

restore_card(pyr, row, col, card) ==
    [pyr EXCEPT !.rows[<<row, col>>] = card, !.removed[<<row, col>>] = FALSE]

\* is_exposed content with one of the two cells below being empty.
is_exposed_either_below(pyr, row, col) ==
    IF pyr.rows[<<row, col>>] = None THEN FALSE
    ELSE IF row = PyramidRows - 1 THEN TRUE
    ELSE pyr.rows[<<row + 1, col>>] = None \/ pyr.rows[<<row + 1, col + 1>>] = None


\* is_exposed looking at the left one of the two cells below only.
is_exposed_left_below(pyr, row, col) ==
    IF pyr.rows[<<row, col>>] = None THEN FALSE
    ELSE IF row = PyramidRows - 1 THEN TRUE
    ELSE pyr.rows[<<row + 1, col>>] = None

is_exposed(pyr, row, col) ==
    IF pyr.rows[<<row, col>>] = None THEN FALSE
    ELSE IF row = PyramidRows - 1 THEN TRUE
    ELSE pyr.rows[<<row + 1, col>>] = None /\ pyr.rows[<<row + 1, col + 1>>] = None

(***************************************************************************)
(* GameState                                                               *)
(*                                                                         *)
(* The object's fields are the variables below; self is the record of     *)
(* them.  Each command is an operator from the object before the call to  *)
(* the object after it and the value returned, and an action calls it.    *)
(***************************************************************************)
VARIABLES
    seed,           \* self.seed
    max_redeals,    \* self.max_redeals
    pyramid,        \* self.pyramid: [rows, removed]
    stock,          \* self.stock, top last
    waste,          \* self.waste, top last
    removed_count,  \* self.removed_count
    redeals_used,   \* self.redeals_used
    history,        \* self.history: the Moves made, latest last
    cmd,            \* the command called last
    first,          \* its first location argument (NoLocation if none)
    second,         \* its second location argument (NoLocation if none)
    ret,            \* the value it returned
    raised          \* whether it raised (the assertion of undo_draw) instead

state == <<seed, max_redeals, pyramid, stock, waste, removed_count, redeals_used, history>>

vars == <<seed, max_redeals, pyramid, stock, waste, removed_count, redeals_used, history,
          cmd, first, second, ret, raised>>

Self ==
    [seed |-> seed, max_redeals |-> max_redeals, pyramid |-> pyramid, stock |-> stock,
     waste |-> waste, removed_count |-> removed_count, redeals_used |-> redeals_used,
     history |-> history]

Move(type, payload) == [type |-> type, payload |-> payload]

\* What a call leaves: the object, the value returned, whether it raised.
Return(self, result) == [self |-> self, ret |-> result, raised |-> FALSE]

Raise(self) == [self |-> self, ret |-> FALSE, raised |-> TRUE]

\* reset forgetting to give the redeals back.
reset_keeps_redeals(self) ==
    LET cards == Deck(self.seed)
        pyramid_cards == deal(cards, PyramidCards)
    IN  [self EXCEPT !.pyramid = Pyramid(pyramid_cards),
                     !.stock = SubSeq(cards, 1, Len(cards) - PyramidCards),
                     !.waste = <<>>,
                     !.removed_count = 0,
                     !.history = <<>>]

reset(self) ==
    LET cards == Deck(self.seed)
        pyramid_cards == deal(cards, PyramidCards)
    IN  [self EXCEPT !.pyramid = Pyramid(pyramid_cards),
                     !.stock = SubSeq(cards, 1, Len(cards) - PyramidCards),
                     !.waste = <<>>,
                     !.removed_count = 0,
                     !.redeals_used = 0,
                     !.history = <<>>]

\* GameState(seed, max_redeals): __init__ sets the three fields and resets.
GameState(s, m) ==
    reset([seed |-> s, max_redeals |-> m, pyramid |-> Pyramid(<<>>), stock |-> <<>>,
           waste |-> <<>>, removed_count |-> 0, redeals_used |-> 0, history |-> <<>>])

\* card_exposed taking any card of the pyramid for exposed.
card_exposed_ignores_cover(self, location) ==
    IF location[1] = "pyramid" THEN card_at(self.pyramid, location[2], location[3]) # None
    ELSE IF location[1] = "waste"
         THEN self.waste # <<>> /\ location[2] = Len(self.waste) - 1
         ELSE FALSE

card_exposed(self, location) ==
    IF location[1] = "pyramid" THEN is_exposed(self.pyramid, location[2], location[3])
    ELSE IF location[1] = "waste"
         THEN self.waste # <<>> /\ location[2] = Len(self.waste) - 1
         ELSE FALSE

\* remove_pyramid_card counting a removal whether or not the cell held a card,
\* and twice over when it did.
remove_pyramid_card_counts_twice(self, row, col) ==
    IF card_at(self.pyramid, row, col) # None
    THEN [self EXCEPT !.pyramid = remove_card(self.pyramid, row, col),
                      !.removed_count = @ + 2]
    ELSE [self EXCEPT !.pyramid = remove_card(self.pyramid, row, col)]

\* remove_pyramid_card: the object after the call (the card returned is the
\* cell's card before it, None when the cell was empty).
remove_pyramid_card(self, row, col) ==
    IF card_at(self.pyramid, row, col) # None
    THEN [self EXCEPT !.pyramid = remove_card(self.pyramid, row, col),
                      !.removed_count = @ + 1]
    ELSE [self EXCEPT !.pyramid = remove_card(self.pyramid, row, col)]

\* restore_pyramid_card forgetting the counter.
restore_pyramid_card_keeps_count(self, row, col, card) ==
    [self EXCEPT !.pyramid = restore_card(self.pyramid, row, col, card)]

restore_pyramid_card(self, row, col, card) ==
    [self EXCEPT !.pyramid = restore_card(self.pyramid, row, col, card),
                 !.removed_count = @ - 1]

\* draw taking the card from the bottom of the stock.
draw_from_bottom(self) ==
    IF self.stock = <<>> THEN Return(self, FALSE)
    ELSE LET card == Head(self.stock)
         IN  Return([self EXCEPT !.stock = Tail(@),
                                 !.waste = Append(@, card),
                                 !.history = Append(@, Move("draw", [card |-> card]))],
                    TRUE)

draw(self) ==
    IF self.stock = <<>> THEN Return(self, FALSE)
    ELSE LET card == Last(self.stock)
         IN  Return([self EXCEPT !.stock = ButLast(@),
                                 !.waste = Append(@, card),
                                 !.history = Append(@, Move("draw", [card |-> card]))],
                    TRUE)

\* undo_draw forgetting to put the card back on the stock.
undo_draw_drops_card(self, card) ==
    IF self.waste # <<>> /\ Last(self.waste) = card
    THEN Return([self EXCEPT !.waste = ButLast(@)], TRUE)
    ELSE Raise(self)

\* undo_draw, called by undo after it popped the move: the assertion, then
\* the card goes back from the waste to the stock.
undo_draw(self, card) ==
    IF self.waste # <<>> /\ Last(self.waste) = card
    THEN Return([self EXCEPT !.waste = ButLast(@), !.stock = Append(@, card)], TRUE)
    ELSE Raise(self)

\* remove_king not asking whether the pyramid's King is exposed.
remove_king_ignores_cover(self, location) ==
    IF location[1] = "pyramid"
    THEN LET card == card_at(self.pyramid, location[2], location[3])
         IN  IF card # None /\ value(card) = 13
             THEN Return([remove_pyramid_card(self, location[2], location[3])
                            EXCEPT !.history = Append(@, Move("remove_king_pyramid",
                                [row |-> location[2], col |-> location[3], card |-> card]))],
                         TRUE)
             ELSE Return(self, FALSE)
    ELSE IF location[1] = "waste" /\ self.waste # <<>>
         THEN IF value(Last(self.waste)) = 13
              THEN Return([self EXCEPT !.waste = ButLast(@),
                                       !.history = Append(@, Move("remove_king_waste",
                                           [card |-> Last(self.waste)]))],
                          TRUE)
              ELSE Return(self, FALSE)
         ELSE Return(self, FALSE)

\* remove_king popping the waste before it looks at the card's value.
remove_king_pops_first(self, location) ==
    IF location[1] = "pyramid"
    THEN LET card == card_at(self.pyramid, location[2], location[3])
         IN  IF /\ card # None
                /\ value(card) = 13
                /\ is_exposed(self.pyramid, location[2], location[3])
             THEN Return([remove_pyramid_card(self, location[2], location[3])
                            EXCEPT !.history = Append(@, Move("remove_king_pyramid",
                                [row |-> location[2], col |-> location[3], card |-> card]))],
                         TRUE)
             ELSE Return(self, FALSE)
    ELSE IF location[1] = "waste" /\ self.waste # <<>>
         THEN IF value(Last(self.waste)) = 13
              THEN Return([self EXCEPT !.waste = ButLast(@),
                                       !.history = Append(@, Move("remove_king_waste",
                                           [card |-> Last(self.waste)]))],
                          TRUE)
              ELSE Return([self EXCEPT !.waste = ButLast(@)], FALSE)
         ELSE Return(self, FALSE)


\* remove_king taking the King off the waste without recording the move.
remove_king_forgets_history(self, location) ==
    IF location[1] = "pyramid"
    THEN LET card == card_at(self.pyramid, location[2], location[3])
         IN  IF /\ card # None
                /\ value(card) = 13
                /\ is_exposed(self.pyramid, location[2], location[3])
             THEN Return([remove_pyramid_card(self, location[2], location[3])
                            EXCEPT !.history = Append(@, Move("remove_king_pyramid",
                                [row |-> location[2], col |-> location[3], card |-> card]))],
                         TRUE)
             ELSE Return(self, FALSE)
    ELSE IF location[1] = "waste" /\ self.waste # <<>>
         THEN IF value(Last(self.waste)) = 13
              THEN Return([self EXCEPT !.waste = ButLast(@)], TRUE)
              ELSE Return(self, FALSE)
         ELSE Return(self, FALSE)

remove_king(self, location) ==
    IF location[1] = "pyramid"
    THEN LET card == card_at(self.pyramid, location[2], location[3])
         IN  IF /\ card # None
                /\ value(card) = 13
                /\ is_exposed(self.pyramid, location[2], location[3])
             THEN Return([remove_pyramid_card(self, location[2], location[3])
                            EXCEPT !.history = Append(@, Move("remove_king_pyramid",
                                [row |-> location[2], col |-> location[3], card |-> card]))],
                         TRUE)
             ELSE Return(self, FALSE)
    ELSE IF location[1] = "waste" /\ self.waste # <<>>
         THEN IF value(Last(self.waste)) = 13
              THEN Return([self EXCEPT !.waste = ButLast(@),
                                       !.history = Append(@, Move("remove_king_waste",
                                           [card |-> Last(self.waste)]))],
                          TRUE)
              ELSE Return(self, FALSE)
         ELSE Return(self, FALSE)

get_card(self, location) ==
    IF location[1] = "pyramid" THEN card_at(self.pyramid, location[2], location[3])
    ELSE IF /\ location[1] = "waste"
            /\ self.waste # <<>>
            /\ location[2] = Len(self.waste) - 1
         THEN Last(self.waste)
         ELSE None

\* The removal loop popping the waste without recording the card.
remove_location_forgets_waste(acc, location) ==
    IF location[1] = "pyramid"
    THEN LET card == card_at(acc.self.pyramid, location[2], location[3])
         IN  [self |-> remove_pyramid_card(acc.self, location[2], location[3]),
              removed_cards |->
                  IF card # None
                  THEN Append(acc.removed_cards,
                              <<location[1], location[2], location[3], card>>)
                  ELSE acc.removed_cards]
    ELSE IF location[1] = "waste" /\ acc.self.waste # <<>>
         THEN [self |-> [acc.self EXCEPT !.waste = ButLast(@)],
               removed_cards |-> acc.removed_cards]
         ELSE acc

\* One turn of remove_pair's removal loop, "for location in (first, second)":
\* acc holds the object and removed_cards so far.
remove_location(acc, location) ==
    IF location[1] = "pyramid"
    THEN LET card == card_at(acc.self.pyramid, location[2], location[3])
         IN  [self |-> remove_pyramid_card(acc.self, location[2], location[3]),
              removed_cards |->
                  IF card # None
                  THEN Append(acc.removed_cards,
                              <<location[1], location[2], location[3], card>>)
                  ELSE acc.removed_cards]
    ELSE IF location[1] = "waste" /\ acc.self.waste # <<>>
         THEN [self |-> [acc.self EXCEPT !.waste = ButLast(@)],
               removed_cards |->
                   Append(acc.removed_cards,
                          <<location[1], location[2], location[3], Last(acc.self.waste)>>)]
         ELSE acc

\* The restoring loop putting the first card recorded back every time.
RECURSIVE restore_cards_first_card(_, _)
restore_cards_first_card(self, cards) ==
    IF cards = <<>> THEN self
    ELSE LET c == Last(cards)
             restored ==
                 IF c[1] = "pyramid"
                 THEN restore_pyramid_card(self, c[2], c[3], cards[1][4])
                 ELSE IF c[1] = "waste" THEN [self EXCEPT !.waste = Append(@, cards[1][4])]
                 ELSE self
         IN  restore_cards_first_card(restored, ButLast(cards))


\* The restoring loop putting pyramid cards back and no waste card.
RECURSIVE restore_cards_pyramid_only(_, _)
restore_cards_pyramid_only(self, cards) ==
    IF cards = <<>> THEN self
    ELSE LET c == Last(cards)
             restored ==
                 IF c[1] = "pyramid" THEN restore_pyramid_card(self, c[2], c[3], c[4])
                 ELSE self
         IN  restore_cards_pyramid_only(restored, ButLast(cards))

\* "for loc_type, a, b, card in reversed(cards)": each card goes back to its
\* place, the last removed first (remove_pair's rollback, and undo).
RECURSIVE restore_cards(_, _)
restore_cards(self, cards) ==
    IF cards = <<>> THEN self
    ELSE LET c == Last(cards)
             restored ==
                 IF c[1] = "pyramid" THEN restore_pyramid_card(self, c[2], c[3], c[4])
                 ELSE IF c[1] = "waste" THEN [self EXCEPT !.waste = Append(@, c[4])]
                 ELSE self
         IN  restore_cards(restored, ButLast(cards))

remove_pair(self, a, b) ==
    IF a = b THEN Return(self, FALSE)
    ELSE LET card_a == get_card(self, a)
             card_b == get_card(self, b)
         IN  IF card_a = None \/ card_b = None THEN Return(self, FALSE)
             ELSE IF value(card_a) + value(card_b) # 13 THEN Return(self, FALSE)
             ELSE IF ~card_exposed(self, a) \/ ~card_exposed(self, b)
                  THEN Return(self, FALSE)
             ELSE LET after == remove_location(
                                   remove_location([self |-> self, removed_cards |-> <<>>], a),
                                   b)
                  IN  IF Len(after.removed_cards) # 2
                      THEN Return(restore_cards(after.self, after.removed_cards), FALSE)
                      ELSE Return([after.self EXCEPT !.history =
                                       Append(@, Move("remove_pair",
                                                      [cards |-> after.removed_cards]))],
                                  TRUE)

\* undo giving a redeal back whatever the move it takes back.
undo_gives_redeal_back_always(self) ==
    IF self.history = <<>> THEN Return(self, FALSE)
    ELSE LET move == Last(self.history)
             popped == [self EXCEPT !.history = ButLast(@), !.redeals_used = @ - 1]
         IN  IF move.type = "draw" THEN undo_draw(popped, move.payload.card)
             ELSE IF move.type = "remove_king_pyramid"
                  THEN Return(restore_pyramid_card(popped, move.payload.row,
                                                   move.payload.col, move.payload.card),
                              TRUE)
             ELSE IF move.type = "remove_king_waste"
                  THEN Return([popped EXCEPT !.waste = Append(@, move.payload.card)], TRUE)
             ELSE IF move.type = "remove_pair"
                  THEN Return(restore_cards(popped, move.payload.cards), TRUE)
             ELSE IF move.type = "redeal"
                  THEN Return([popped EXCEPT !.stock = move.payload.stock_before,
                                             !.waste = move.payload.waste_before],
                              TRUE)
             ELSE Return(popped, TRUE)

\* undo taking back the removal of a waste King without putting the King
\* back.
undo_loses_waste_king(self) ==
    IF self.history = <<>> THEN Return(self, FALSE)
    ELSE LET move == Last(self.history)
             popped == [self EXCEPT !.history = ButLast(@)]
         IN  IF move.type = "draw" THEN undo_draw(popped, move.payload.card)
             ELSE IF move.type = "remove_king_pyramid"
                  THEN Return(restore_pyramid_card(popped, move.payload.row,
                                                   move.payload.col, move.payload.card),
                              TRUE)
             ELSE IF move.type = "remove_king_waste"
                  THEN Return(popped, TRUE)
             ELSE IF move.type = "remove_pair"
                  THEN Return(restore_cards(popped, move.payload.cards), TRUE)
             ELSE IF move.type = "redeal"
                  THEN Return([popped EXCEPT !.stock = move.payload.stock_before,
                                             !.waste = move.payload.waste_before,
                                             !.redeals_used = @ - 1],
                              TRUE)
             ELSE Return(popped, TRUE)

\* undo refusing to take a move back once the game is won.
undo_blocked_when_won(self) ==
    IF self.history = <<>> \/ self.removed_count >= WinCount THEN Return(self, FALSE)
    ELSE LET move == Last(self.history)
             popped == [self EXCEPT !.history = ButLast(@)]
         IN  IF move.type = "draw" THEN undo_draw(popped, move.payload.card)
             ELSE IF move.type = "remove_king_pyramid"
                  THEN Return(restore_pyramid_card(popped, move.payload.row,
                                                   move.payload.col, move.payload.card),
                              TRUE)
             ELSE IF move.type = "remove_king_waste"
                  THEN Return([popped EXCEPT !.waste = Append(@, move.payload.card)], TRUE)
             ELSE IF move.type = "remove_pair"
                  THEN Return(restore_cards(popped, move.payload.cards), TRUE)
             ELSE IF move.type = "redeal"
                  THEN Return([popped EXCEPT !.stock = move.payload.stock_before,
                                             !.waste = move.payload.waste_before,
                                             !.redeals_used = @ - 1],
                              TRUE)
             ELSE Return(popped, TRUE)


\* undo taking a redeal back without giving it back to the player.
undo_keeps_redeal_used(self) ==
    IF self.history = <<>> THEN Return(self, FALSE)
    ELSE LET move == Last(self.history)
             popped == [self EXCEPT !.history = ButLast(@)]
         IN  IF move.type = "draw" THEN undo_draw(popped, move.payload.card)
             ELSE IF move.type = "remove_king_pyramid"
                  THEN Return(restore_pyramid_card(popped, move.payload.row,
                                                   move.payload.col, move.payload.card),
                              TRUE)
             ELSE IF move.type = "remove_king_waste"
                  THEN Return([popped EXCEPT !.waste = Append(@, move.payload.card)], TRUE)
             ELSE IF move.type = "remove_pair"
                  THEN Return(restore_cards(popped, move.payload.cards), TRUE)
             ELSE IF move.type = "redeal"
                  THEN Return([popped EXCEPT !.stock = move.payload.stock_before,
                                             !.waste = move.payload.waste_before],
                              TRUE)
             ELSE Return(popped, TRUE)

undo(self) ==
    IF self.history = <<>> THEN Return(self, FALSE)
    ELSE LET move == Last(self.history)
             popped == [self EXCEPT !.history = ButLast(@)]
         IN  IF move.type = "draw" THEN undo_draw(popped, move.payload.card)
             ELSE IF move.type = "remove_king_pyramid"
                  THEN Return(restore_pyramid_card(popped, move.payload.row,
                                                   move.payload.col, move.payload.card),
                              TRUE)
             ELSE IF move.type = "remove_king_waste"
                  THEN Return([popped EXCEPT !.waste = Append(@, move.payload.card)], TRUE)
             ELSE IF move.type = "remove_pair"
                  THEN Return(restore_cards(popped, move.payload.cards), TRUE)
             ELSE IF move.type = "redeal"
                  THEN Return([popped EXCEPT !.stock = move.payload.stock_before,
                                             !.waste = move.payload.waste_before,
                                             !.redeals_used = @ - 1],
                              TRUE)
             ELSE Return(popped, TRUE)

\* redeal allowing one redeal more than max_redeals.
redeal_one_too_many(self) ==
    IF self.redeals_used > self.max_redeals THEN Return(self, FALSE)
    ELSE IF self.waste = <<>> THEN Return(self, FALSE)
    ELSE Return([self EXCEPT !.stock = self.stock \o Reverse(self.waste),
                             !.waste = <<>>,
                             !.redeals_used = @ + 1,
                             !.history = Append(@, Move("redeal",
                                 [stock_before |-> self.stock,
                                  waste_before |-> self.waste]))],
                TRUE)

\* redeal putting the waste on the stock without turning it over.
redeal_keeps_order(self) ==
    IF self.redeals_used >= self.max_redeals THEN Return(self, FALSE)
    ELSE IF self.waste = <<>> THEN Return(self, FALSE)
    ELSE Return([self EXCEPT !.stock = self.stock \o self.waste,
                             !.waste = <<>>,
                             !.redeals_used = @ + 1,
                             !.history = Append(@, Move("redeal",
                                 [stock_before |-> self.stock,
                                  waste_before |-> self.waste]))],
                TRUE)


\* redeal forgetting to clear the waste.
redeal_keeps_waste(self) ==
    IF self.redeals_used >= self.max_redeals THEN Return(self, FALSE)
    ELSE IF self.waste = <<>> THEN Return(self, FALSE)
    ELSE Return([self EXCEPT !.stock = self.stock \o Reverse(self.waste),
                             !.redeals_used = @ + 1,
                             !.history = Append(@, Move("redeal",
                                 [stock_before |-> self.stock,
                                  waste_before |-> self.waste]))],
                TRUE)


\* redeal forgetting to count the redeal.
redeal_uncounted(self) ==
    IF self.redeals_used >= self.max_redeals THEN Return(self, FALSE)
    ELSE IF self.waste = <<>> THEN Return(self, FALSE)
    ELSE Return([self EXCEPT !.stock = self.stock \o Reverse(self.waste),
                             !.waste = <<>>,
                             !.history = Append(@, Move("redeal",
                                 [stock_before |-> self.stock,
                                  waste_before |-> self.waste]))],
                TRUE)

redeal(self) ==
    IF self.redeals_used >= self.max_redeals THEN Return(self, FALSE)
    ELSE IF self.waste = <<>> THEN Return(self, FALSE)
    ELSE Return([self EXCEPT !.stock = self.stock \o Reverse(self.waste),
                             !.waste = <<>>,
                             !.redeals_used = @ + 1,
                             !.history = Append(@, Move("redeal",
                                 [stock_before |-> self.stock,
                                  waste_before |-> self.waste]))],
                TRUE)

\* has_won asking for more removals than the pyramid has cards.
has_won_strictly_more(self) == self.removed_count > WinCount

has_won(self) == self.removed_count >= WinCount

\* Pyramid.all_cards: (r, c, card) for every cell, row by row.
all_cards(pyr) ==
    [k \in 1..Cardinality(Cells) |->
        LET rc == CHOOSE rc \in Cells : (rc[1] * (rc[1] + 1)) \div 2 + rc[2] + 1 = k
        IN  <<rc[1], rc[2], pyr.rows[rc]>>]

\* legal_moves_remaining taking any card on the waste for a redeal to come.
legal_moves_remaining_any_waste(self) ==
    IF self.stock # <<>> \/ self.waste # <<>>
    THEN Return(self, TRUE)
    ELSE LET IsExposedCard(e) == e[3] # None /\ is_exposed(self.pyramid, e[1], e[2])
             exposed == SelectSeq(all_cards(self.pyramid), IsExposedCard)
             pyramid_values == [i \in 1..Len(exposed) |-> value(exposed[i][3])]
         IN  IF \E i \in 1..Len(exposed) : value(exposed[i][3]) = 13
             THEN Return(self, TRUE)
             ELSE Return(self, \E i \in 1..Len(pyramid_values) :
                                   \E j \in (i + 1)..Len(pyramid_values) :
                                       pyramid_values[i] + pyramid_values[j] = 13)


\* legal_moves_remaining looking for Kings and never for pairs.
legal_moves_remaining_kings_only(self) ==
    IF self.stock # <<>> \/ (self.waste # <<>> /\ self.redeals_used < self.max_redeals)
    THEN Return(self, TRUE)
    ELSE LET IsExposedCard(e) == e[3] # None /\ is_exposed(self.pyramid, e[1], e[2])
             exposed == SelectSeq(all_cards(self.pyramid), IsExposedCard)
         IN  IF \E i \in 1..Len(exposed) : value(exposed[i][3]) = 13
             THEN Return(self, TRUE)
             ELSE Return(self, self.waste # <<>> /\ value(Last(self.waste)) = 13)

\* legal_moves_remaining: the stock or a redeal first; then the exposed cards
\* of the pyramid, a King among them returning true at once; then the waste
\* top likewise; then the pairs i < j of the values collected.
legal_moves_remaining(self) ==
    IF self.stock # <<>> \/ (self.waste # <<>> /\ self.redeals_used < self.max_redeals)
    THEN Return(self, TRUE)
    ELSE LET IsExposedCard(e) == e[3] # None /\ is_exposed(self.pyramid, e[1], e[2])
             exposed == SelectSeq(all_cards(self.pyramid), IsExposedCard)
             pyramid_values == [i \in 1..Len(exposed) |-> value(exposed[i][3])]
         IN  IF \E i \in 1..Len(exposed) : value(exposed[i][3]) = 13
             THEN Return(self, TRUE)
             ELSE IF self.waste # <<>> /\ value(Last(self.waste)) = 13
                  THEN Return(self, TRUE)
             ELSE LET values == IF self.waste # <<>>
                                THEN Append(pyramid_values, value(Last(self.waste)))
                                ELSE pyramid_values
                  IN  Return(self, \E i \in 1..Len(values) :
                                      \E j \in (i + 1)..Len(values) :
                                          values[i] + values[j] = 13)

(***************************************************************************)
(* The calls                                                               *)
(***************************************************************************)
\* The longest history a game is played to.
MaxHistory == 4

NoLocation == <<"none", 0, 0>>

\* The pyramid cells commands are called on.
PyramidInputs ==
    {<<"pyramid", 6, 0>>, <<"pyramid", 6, 1>>, <<"pyramid", 6, 2>>,
     <<"pyramid", 5, 0>>, <<"pyramid", 5, 1>>}

\* The waste locations commands are called on: the top (as the interface
\* names it, column 0, and with another column), and the index above it,
\* which is the one the top had before the last card left the waste.
WasteInputs ==
    {<<"waste", Len(waste) - 1, 0>>, <<"waste", Len(waste) - 1, 1>>,
     <<"waste", Len(waste), 0>>}

LocationInputs == PyramidInputs \cup WasteInputs

\* A call of command name with arguments a and b, leaving result.
Call(name, a, b, result) ==
    /\ cmd' = name
    /\ first' = a
    /\ second' = b
    /\ ret' = result.ret
    /\ raised' = result.raised
    /\ seed' = result.self.seed
    /\ max_redeals' = result.self.max_redeals
    /\ pyramid' = result.self.pyramid
    /\ stock' = result.self.stock
    /\ waste' = result.self.waste
    /\ removed_count' = result.self.removed_count
    /\ redeals_used' = result.self.redeals_used
    /\ history' = result.self.history

Init ==
    \E s \in Seeds, m \in MaxRedealsValues :
        LET self == GameState(s, m)
        IN  /\ seed = self.seed
            /\ max_redeals = self.max_redeals
            /\ pyramid = self.pyramid
            /\ stock = self.stock
            /\ waste = self.waste
            /\ removed_count = self.removed_count
            /\ redeals_used = self.redeals_used
            /\ history = self.history
            /\ cmd = "init"
            /\ first = NoLocation
            /\ second = NoLocation
            /\ ret = TRUE
            /\ raised = FALSE

Draw == Call("draw", NoLocation, NoLocation, draw(Self))

Redeal == Call("redeal", NoLocation, NoLocation, redeal(Self))

RemoveKing == \E location \in LocationInputs :
    Call("remove_king", location, NoLocation, remove_king(Self, location))

RemovePair == \E a \in LocationInputs, b \in LocationInputs :
    Call("remove_pair", a, b, remove_pair(Self, a, b))

Undo == Call("undo", NoLocation, NoLocation, undo(Self))

\* reset() returns nothing: ret is TRUE after it.
Reset == Call("reset", NoLocation, NoLocation, Return(reset(Self), TRUE))

\* Games of at most MaxHistory moves, every command called.
Next ==
    \/ Len(history) < MaxHistory /\ Draw
    \/ Len(history) < MaxHistory /\ Redeal
    \/ Len(history) < MaxHistory /\ RemoveKing
    \/ Len(history) < MaxHistory /\ RemovePair
    \/ Undo
    \/ Reset

Spec == Init /\ [][Next]_vars

\* Whole passes through the stock: draw, redeal, undo and reset, to any depth
\* (the stock and max_redeals bound it).
NextStock == Draw \/ Redeal \/ Undo \/ Reset

SpecStock == Init /\ [][NextStock]_vars

\* The locations a click can name: the pyramid cards that are exposed
\* (handle_pyramid_click answers "Card is covered" to the others) and the
\* waste top (handle_waste_click).
ClickInputs ==
    {location \in {<<"pyramid", rc[1], rc[2]>> : rc \in Cells}
                   \cup {<<"waste", Len(waste) - 1, 0>>} :
        card_exposed(Self, location)}

\* The order of two clicks that select a pair: a pyramid card before the
\* waste top, and of two pyramid cards the one dealt first.
ClickedBefore(a, b) ==
    IF a[1] # b[1] THEN a[1] = "pyramid"
    ELSE a[2] < b[2] \/ (a[2] = b[2] /\ a[3] < b[3])

\* Whether a click, or two, can remove something now.
RemovalOffered ==
    \/ \E location \in ClickInputs : remove_king(Self, location).ret
    \/ \E a \in ClickInputs, b \in ClickInputs : remove_pair(Self, a, b).ret

\* A click on an exposed King.
ClickKing == \E location \in ClickInputs :
    /\ get_card(Self, location) # None
    /\ value(get_card(Self, location)) = 13
    /\ Call("remove_king", location, NoLocation, remove_king(Self, location))

\* Two clicks on exposed cards that make a pair.
ClickPair == \E a \in ClickInputs, b \in ClickInputs :
    /\ ClickedBefore(a, b)
    /\ remove_pair(Self, a, b).ret
    /\ Call("remove_pair", a, b, remove_pair(Self, a, b))

\* A click on the stock when nothing can be removed: draw().
ClickStock == ~RemovalOffered /\ Draw

\* The Redeal button, or the click on the empty stock, when nothing can be
\* removed: redeal().
ClickRedeal == ~RemovalOffered /\ stock = <<>> /\ Redeal

\* Whole games: the player removes what can be removed, draws or redeals
\* when nothing can, and undoes or starts a new game at any time.
NextGame == ClickKing \/ ClickPair \/ ClickStock \/ ClickRedeal \/ Undo \/ Reset

SpecGame == Init /\ [][NextGame]_vars

\* A click on the stock that draws a card, when nothing can be removed.
PlayStock == ~RemovalOffered /\ draw(Self).ret /\ Draw

\* A click on the empty stock, or the Redeal button, that redeals, when
\* nothing can be removed.
PlayRedeal == ~RemovalOffered /\ stock = <<>> /\ redeal(Self).ret /\ Redeal

\* Play without undo and new game: commands that return true only, and one
\* of them is called as long as there is one (removals first, then the
\* draw, then the redeal).
NextPlay == ClickKing \/ ClickPair \/ PlayStock \/ PlayRedeal

SpecPlay == Init /\ [][NextPlay]_vars /\ WF_vars(NextPlay)

(***************************************************************************)
(* Properties                                                              *)
(***************************************************************************)
\* Every location: each pyramid cell, and the waste locations.
PyramidLocations == {<<"pyramid", rc[1], rc[2]>> : rc \in Cells}

Locations == PyramidLocations \cup WasteInputs

OccupiedCells == {rc \in Cells : pyramid.rows[rc] # None}

EmptyCells == {rc \in Cells : pyramid.rows[rc] = None}

\* Of a call's result r: if the call returned true, the undo() called right
\* after it returns true and leaves the object as it is now.
UndoRestores(r) == r.ret => undo(r.self) = Return(Self, TRUE)

\* C1: whichever of draw, redeal, remove_king (on any location) and
\* remove_pair (on any two of the locations called) returns true in a
\* reachable state, the undo() called right after it returns true and
\* leaves the object exactly as it was before that command: pyramid, stock,
\* waste, removed_count, redeals_used and history.
C1_UndoRoundTrip ==
    /\ UndoRestores(draw(Self))
    /\ UndoRestores(redeal(Self))
    /\ \A location \in Locations : UndoRestores(remove_king(Self, location))
    /\ \A a \in LocationInputs, b \in LocationInputs :
           UndoRestores(remove_pair(Self, a, b))

\* C1's case: an undo has just returned true, in a state where a draw, a
\* redeal, a remove_king and a remove_pair would each return true.
C1_Witness ==
    /\ cmd = "undo" /\ ret
    /\ draw(Self).ret
    /\ redeal(Self).ret
    /\ \E location \in Locations : remove_king(Self, location).ret
    /\ \E a \in LocationInputs, b \in LocationInputs : remove_pair(Self, a, b).ret

\* Of a call's result r: if the call returned false, the object is as it is
\* now.
FailureChangesNothing(r) == (~r.ret /\ ~r.raised) => r.self = Self

\* C2: a call of draw, redeal, remove_king (on any location), remove_pair
\* (on any two of the locations called) or undo that returns false in a
\* reachable state leaves the object as it was: pyramid, stock, waste,
\* removed_count, redeals_used and history.
C2_FailedCallsChangeNothing ==
    /\ FailureChangesNothing(draw(Self))
    /\ FailureChangesNothing(redeal(Self))
    /\ FailureChangesNothing(undo(Self))
    /\ \A location \in Locations : FailureChangesNothing(remove_king(Self, location))
    /\ \A a \in LocationInputs, b \in LocationInputs :
           FailureChangesNothing(remove_pair(Self, a, b))

\* C2's case: a remove_pair on two distinct cards summing to 13 has just
\* returned false in the middle of a game, and a remove_king on a waste
\* top that is no King would return false too.
C2_Witness ==
    /\ cmd = "remove_pair" /\ ~ret
    /\ first # second
    /\ get_card(Self, first) # None /\ get_card(Self, second) # None
    /\ value(get_card(Self, first)) + value(get_card(Self, second)) = 13
    /\ history # <<>>
    /\ waste # <<>> /\ value(Last(waste)) # 13
    /\ ~remove_king(Self, <<"waste", Len(waste) - 1, 0>>).ret

\* The cards the removals recorded in a history took from the waste: one
\* for each remove_king_waste move, one for each waste entry of a
\* remove_pair move.
RECURSIVE WasteCardsRemoved(_)
WasteCardsRemoved(moves) ==
    IF moves = <<>> THEN 0
    ELSE LET move == Last(moves)
             here == IF move.type = "remove_king_waste" THEN 1
                     ELSE IF move.type = "remove_pair"
                          THEN Cardinality({i \in 1..Len(move.payload.cards) :
                                               move.payload.cards[i][1] = "waste"})
                          ELSE 0
         IN  here + WasteCardsRemoved(ButLast(moves))

\* C3, as claimed: in every reachable state the occupied pyramid cells, the
\* stock, the waste and removed_count add up to 52.
C3_Claimed_FiftyTwo ==
    Cardinality(OccupiedCells) + Len(stock) + Len(waste) + removed_count = 52

\* C3, amended: in every reachable state the occupied pyramid cells, the
\* stock, the waste, removed_count and the cards that the removals in
\* history took from the waste add up to 52 (removed_count counts pyramid
\* cards only).
C3_ConservationWithWasteRemovals ==
    Cardinality(OccupiedCells) + Len(stock) + Len(waste) + removed_count
        + WasteCardsRemoved(history) = 52

\* C3's case: cards have left the pyramid and two cards have left the waste
\* (a partner of a pyramid card, a King), so fewer than 24 are in stock and
\* waste.
C3_Witness ==
    /\ removed_count >= 1
    /\ WasteCardsRemoved(history) >= 2
    /\ Len(stock) + Len(waste) < 24

\* C4: in every reachable state removed_count is the number of empty
\* pyramid cells, and lies in 0..28.
C4_CounterSync ==
    /\ removed_count = Cardinality(EmptyCells)
    /\ 0 <= removed_count
    /\ removed_count <= 28

\* C4's case: an undo has just put a card back into the pyramid while
\* other cells stay empty.
C4_Witness ==
    /\ cmd = "undo" /\ ret
    /\ removed_count >= 2
    /\ \E location \in PyramidInputs :
           /\ pyramid.rows[<<location[2], location[3]>>] # None
           /\ \/ remove_king(Self, location).ret
              \/ \E other \in LocationInputs : remove_pair(Self, location, other).ret

\* The specification's reading of a location in the current state, stated on
\* the fields themselves: whether it names a card, which, and whether that
\* card is exposed.
Holds(location) ==
    \/ /\ location[1] = "pyramid"
       /\ pyramid.rows[<<location[2], location[3]>>] # None
    \/ /\ location[1] = "waste"
       /\ waste # <<>>
       /\ location[2] = Len(waste) - 1

CardOf(location) ==
    IF location[1] = "pyramid" THEN pyramid.rows[<<location[2], location[3]>>]
    ELSE waste[Len(waste)]

Exposed(location) ==
    /\ Holds(location)
    /\ location[1] = "pyramid" =>
           \/ location[2] = 6
           \/ /\ pyramid.rows[<<location[2] + 1, location[3]>>] = None
              /\ pyramid.rows[<<location[2] + 1, location[3] + 1>>] = None

\* The step appends exactly one move, of the given type, to history.
AppendsOne(type) ==
    /\ Len(history') = Len(history) + 1
    /\ SubSeq(history', 1, Len(history)) = history
    /\ history'[Len(history')].type = type

\* The step empties exactly the given pyramid cells and leaves the others.
Empties(cells) ==
    \A rc \in Cells :
        pyramid'.rows[rc] = IF rc \in cells THEN None ELSE pyramid.rows[rc]

\* C5: remove_pair(a, b) returns true exactly when a # b, both locations
\* hold a card, the two values sum to 13 and both cards are exposed; it then
\* removes exactly those two distinct cards (a pyramid cell emptied and
\* removed_count one more for each pyramid card, the waste popped for a
\* waste card), leaves stock and redeals_used and appends one remove_pair
\* move to history.
C5_RemovePair ==
    [][cmd' = "remove_pair" =>
        LET a == first'
            b == second'
            legal == /\ a # b
                     /\ Holds(a) /\ Holds(b)
                     /\ value(CardOf(a)) + value(CardOf(b)) = 13
                     /\ Exposed(a) /\ Exposed(b)
            cells == {<<l[2], l[3]>> : l \in {l \in {a, b} : l[1] = "pyramid"}}
            wastes == {l \in {a, b} : l[1] = "waste"}
        IN  /\ ret' <=> legal
            /\ ret' =>
                  /\ CardOf(a) # CardOf(b)
                  /\ Cardinality(cells) + Cardinality(wastes) = 2
                  /\ Empties(cells)
                  /\ removed_count' = removed_count + Cardinality(cells)
                  /\ waste' = IF wastes = {} THEN waste
                              ELSE SubSeq(waste, 1, Len(waste) - 1)
                  /\ stock' = stock
                  /\ redeals_used' = redeals_used
                  /\ AppendsOne("remove_pair")]_vars

\* C5's case: a remove_pair of an exposed pyramid card with the waste top
\* has just returned true, one cell higher up being empty already.
C5_Witness ==
    /\ cmd = "remove_pair" /\ ret
    /\ first[1] = "pyramid" /\ second[1] = "waste"
    /\ removed_count >= 2

\* C6: remove_king on a pyramid location returns true exactly when the cell
\* holds a card of value 13 that is exposed; it then empties the cell, adds
\* exactly 1 to removed_count, leaves stock and waste and appends one
\* remove_king_pyramid move; called again on that location it returns false.
C6_RemoveKingPyramid ==
    [][(cmd' = "remove_king" /\ first'[1] = "pyramid") =>
        LET rc == <<first'[2], first'[3]>>
            legal == /\ pyramid.rows[rc] # None
                     /\ value(pyramid.rows[rc]) = 13
                     /\ Exposed(first')
        IN  /\ ret' <=> legal
            /\ ret' =>
                  /\ Empties({rc})
                  /\ removed_count' = removed_count + 1
                  /\ stock' = stock
                  /\ waste' = waste
                  /\ AppendsOne("remove_king_pyramid")
                  /\ ~remove_king(Self', first').ret]_vars

\* C6's case: a remove_king on a King of row 5, uncovered by a removal
\* before, has just returned true.
C6_Witness ==
    /\ cmd = "remove_king" /\ ret
    /\ first[1] = "pyramid" /\ first[2] < 6

\* C7, as claimed: remove_king on a waste location returns true only if the
\* location's index is that of the waste top and the top is a King; with
\* any other index it returns false and changes nothing.
C7_Claimed_WasteKingOnlyAtTop ==
    [][(cmd' = "remove_king" /\ first'[1] = "waste") =>
        /\ ret' => /\ waste # <<>>
                   /\ first'[2] = Len(waste) - 1
                   /\ value(waste[Len(waste)]) = 13
        /\ first'[2] # Len(waste) - 1 => (~ret' /\ state' = state)]_vars

\* C8: draw() returns false exactly when the stock is empty; when it returns
\* true it moves the last card of stock to the end of waste, appends one
\* draw move and leaves the pyramid, removed_count and redeals_used, so
\* |stock| + |waste| stays.
C8_Draw ==
    [][cmd' = "draw" =>
        /\ ~ret' <=> stock = <<>>
        /\ ret' =>
              /\ stock' = SubSeq(stock, 1, Len(stock) - 1)
              /\ waste' = Append(waste, stock[Len(stock)])
              /\ AppendsOne("draw")
              /\ pyramid' = pyramid
              /\ removed_count' = removed_count
              /\ redeals_used' = redeals_used
              /\ Len(stock') + Len(waste') = Len(stock) + Len(waste)]_vars

\* C8's case: with all 24 cards drawn, a draw has just returned false.
C8_Witness ==
    /\ cmd = "draw" /\ ~ret
    /\ stock = <<>>
    /\ Len(waste) = 24

\* C9: redeal() returns true exactly when redeals_used < max_redeals and
\* the waste is not empty, the stock empty or not; it then leaves as stock
\* the old stock followed by the old waste reversed, empties the waste, adds
\* 1 to redeals_used, leaves the pyramid and removed_count and appends one
\* redeal move.  With the stock empty and max_redeals = 1, the new stock is
\* the old waste reversed and a second redeal() returns false.
C9_Redeal ==
    [][cmd' = "redeal" =>
        /\ ret' <=> (redeals_used < max_redeals /\ waste # <<>>)
        /\ ret' =>
              /\ Len(stock') = Len(stock) + Len(waste)
              /\ \A i \in 1..Len(stock) : stock'[i] = stock[i]
              /\ \A i \in 1..Len(waste) :
                     stock'[Len(stock) + i] = waste[Len(waste) - i + 1]
              /\ waste' = <<>>
              /\ redeals_used' = redeals_used + 1
              /\ pyramid' = pyramid
              /\ removed_count' = removed_count
              /\ AppendsOne("redeal")
              /\ (stock = <<>> /\ max_redeals = 1) =>
                     /\ \A i \in 1..Len(waste) : stock'[i] = waste[Len(waste) - i + 1]
                     /\ ~redeal(Self').ret]_vars

\* C9's case: with the stock empty, all 24 cards on the waste and
\* max_redeals = 1, a redeal has just returned true.
C9_Witness ==
    /\ cmd = "redeal" /\ ret
    /\ max_redeals = 1
    /\ Len(stock) = 24
    /\ history[Len(history)].payload.stock_before = <<>>

\* C10, as claimed: after a redeal() that returns true, the next draw()
\* yields the card that was the waste top just before the redeal.
C10_Claimed_DrawsFormerTop ==
    redeal(Self).ret =>
        LET drawn == draw(redeal(Self).self)
        IN  /\ drawn.ret
            /\ drawn.self.waste[Len(drawn.self.waste)] = waste[Len(waste)]

\* C10, amended: after a redeal() that returns true, the next draw() yields
\* the card that was at the bottom of the waste just before the redeal, the
\* one discarded first (the former top only if the waste held one card).
C10_DrawsFormerBottom ==
    redeal(Self).ret =>
        LET drawn == draw(redeal(Self).self)
        IN  /\ drawn.ret
            /\ drawn.self.waste[Len(drawn.self.waste)] = waste[1]

\* C10's case: a draw has just followed a redeal of a waste of three cards
\* or more, made with cards left in the stock, and brought back the first
\* card of that waste.
C10_Witness ==
    /\ cmd = "draw" /\ ret
    /\ Len(history) >= 2
    /\ history[Len(history) - 1].type = "redeal"
    /\ Len(history[Len(history) - 1].payload.waste_before) >= 3
    /\ history[Len(history) - 1].payload.stock_before # <<>>
    /\ waste = <<history[Len(history) - 1].payload.waste_before[1]>>

\* C11: in every reachable state 0 <= redeals_used <= max_redeals
\* (max_redeals being 0 or more), whatever the order of redeals, undos,
\* resets and the other commands before.
C11_RedealsWithinLimit ==
    /\ 0 <= max_redeals
    /\ 0 <= redeals_used
    /\ redeals_used <= max_redeals

\* C11's case: the one redeal allowed is used, and a second redeal has just
\* been refused with cards on the waste.
C11_Witness ==
    /\ cmd = "redeal" /\ ~ret
    /\ max_redeals = 1
    /\ redeals_used = max_redeals
    /\ waste # <<>>

\* C12: in every reachable state has_won() is true if and only if all 28
\* pyramid cells are empty, whatever is left in the stock and the waste.
C12_WonIffPyramidEmpty ==
    has_won(Self) <=> (\A rc \in Cells : pyramid.rows[rc] = None)

\* C12's case: the last card has just left the pyramid, with cards still
\* in the stock and on the waste.
C12_Witness ==
    /\ cmd \in {"remove_king", "remove_pair"} /\ ret
    /\ \A rc \in Cells : pyramid.rows[rc] = None
    /\ has_won(Self)
    /\ stock # <<>> /\ waste # <<>>

\* The cards in play: the exposed cards of the pyramid and the waste top,
\* each once.
CardsInPlay ==
    {location \in PyramidLocations \cup {<<"waste", Len(waste) - 1, 0>>} :
        Exposed(location)}

\* C13: legal_moves_remaining() returns true exactly when the stock is not
\* empty, or the waste is not empty and redeals_used < max_redeals, or an
\* exposed pyramid card is a King, or the waste top is a King, or two
\* distinct cards among the exposed pyramid cards and the waste top have
\* values summing to 13; and it leaves the object as it was.
C13_LegalMovesRemaining ==
    legal_moves_remaining(Self) =
        Return(Self,
               \/ stock # <<>>
               \/ waste # <<>> /\ redeals_used < max_redeals
               \/ \E location \in CardsInPlay : value(CardOf(location)) = 13
               \/ \E a \in CardsInPlay, b \in CardsInPlay :
                      a # b /\ value(CardOf(a)) + value(CardOf(b)) = 13)

\* C13's case: a lost game: the stock is empty, the waste is not, no redeal
\* is left, a card is exposed in the pyramid beside the waste top, and
\* legal_moves_remaining() returns false.
C13_Witness ==
    /\ ~legal_moves_remaining(Self).ret
    /\ stock = <<>> /\ waste # <<>>
    /\ redeals_used = max_redeals
    /\ Cardinality(CardsInPlay) >= 2

\* C14: in every reachable state and for every cell (row, col),
\* is_exposed(row, col) is true if and only if the cell holds a card and
\* row = 6 or both (row + 1, col) and (row + 1, col + 1) are empty: it is
\* computed from the cells as they are now, right after each removal and
\* each undo.
C14_Exposure ==
    \A rc \in Cells :
        is_exposed(pyramid, rc[1], rc[2]) <=>
            /\ pyramid.rows[rc] # None
            /\ \/ rc[1] = 6
               \/ /\ pyramid.rows[<<rc[1] + 1, rc[2]>>] = None
                  /\ pyramid.rows[<<rc[1] + 1, rc[2] + 1>>] = None

\* C14's case: an undo has just put a card back; above the last row one
\* card lies exposed and another is still covered by a single card.
C14_Witness ==
    /\ cmd = "undo" /\ ret
    /\ removed_count >= 3
    /\ \E rc \in Cells :
           /\ rc[1] < 6
           /\ is_exposed(pyramid, rc[1], rc[2])
    /\ \E rc \in Cells :
           /\ rc[1] < 6
           /\ pyramid.rows[rc] # None
           /\ ~is_exposed(pyramid, rc[1], rc[2])
           /\ (pyramid.rows[<<rc[1] + 1, rc[2]>>] = None)
                  # (pyramid.rows[<<rc[1] + 1, rc[2] + 1>>] = None)

\* undo() called on an object again and again until it does not return
\* true: the object left, and the number of calls that returned true.
RECURSIVE UndoUntilFalse(_, _)
UndoUntilFalse(self, undos) ==
    LET r == undo(self)
    IN  IF r.ret THEN UndoUntilFalse(r.self, undos + 1)
        ELSE [self |-> r.self, undos |-> undos, raised |-> r.raised]

\* C15: in every reachable state undo() returns false if and only if
\* history is empty; and undo() called until it returns false returns true
\* exactly as many times as history has moves and leaves the object as the
\* last reset() (or the construction) left it: the 28 cards dealt in the
\* pyramid, the 24-card stock in its order, the waste empty, removed_count
\* and redeals_used 0, history empty.
C15_FullLinearUndo ==
    LET end == UndoUntilFalse(Self, 0)
    IN  /\ undo(Self) = Return(Self, FALSE) <=> history = <<>>
        /\ history # <<>> => undo(Self).ret
        /\ ~end.raised
        /\ end.undos = Len(history)
        /\ end.self = reset(Self)
        /\ \A rc \in Cells : end.self.pyramid.rows[rc] # None
        /\ Len(end.self.stock) = 24
        /\ end.self.waste = <<>>
        /\ end.self.removed_count = 0
        /\ end.self.redeals_used = 0
        /\ end.self.history = <<>>

\* The types of the moves in history.
MoveTypes == {history[i].type : i \in 1..Len(history)}

\* C15's case: an undo has just returned true, leaving a history of forty
\* moves or more with every type of move in it.
C15_Witness ==
    /\ cmd = "undo" /\ ret
    /\ Len(history) >= 40
    /\ MoveTypes = {"draw", "redeal", "remove_king_pyramid", "remove_king_waste",
                    "remove_pair"}

\* C16: reset(), called in any reachable state, leaves all 28 pyramid cells
\* holding a card, a stock of 24 cards, the waste empty, removed_count 0,
\* redeals_used 0 and history empty, with seed and max_redeals as they
\* were; undo() right after it returns false; and a second reset() right
\* after it leaves the same state.
C16_Reset ==
    [][cmd' = "reset" =>
        /\ \A rc \in Cells : pyramid'.rows[rc] # None /\ ~pyramid'.removed[rc]
        /\ Cardinality({pyramid'.rows[rc] : rc \in Cells}) = 28
        /\ Len(stock') = 24
        /\ waste' = <<>>
        /\ removed_count' = 0
        /\ redeals_used' = 0
        /\ history' = <<>>
        /\ seed' = seed
        /\ max_redeals' = max_redeals
        /\ undo(Self') = Return(Self', FALSE)
        /\ reset(Self') = Self']_vars

\* C16's case: a reset has just been called, in a game that allows a
\* redeal, and left the state of a new game.
C16_Witness ==
    /\ cmd = "reset"
    /\ max_redeals = 1
    /\ Self = GameState(seed, max_redeals)

\* C18: a remove_pair call never leaves exactly one card removed: it takes
\* two cards (and returns true) or none (and returns false); and whenever
\* the two locations meet its four conditions (distinct, both holding a card,
\* values summing to 13, both exposed) its removal loop records exactly two
\* cards, so that the rollback branch is not taken.
C18_PairAtomic ==
    [][cmd' = "remove_pair" =>
        LET a == first'
            b == second'
            gone == Cardinality({rc \in Cells : pyramid.rows[rc] # pyramid'.rows[rc]})
                        + (Len(waste) - Len(waste'))
            passes == /\ a # b
                      /\ get_card(Self, a) # None /\ get_card(Self, b) # None
                      /\ value(get_card(Self, a)) + value(get_card(Self, b)) = 13
                      /\ card_exposed(Self, a) /\ card_exposed(Self, b)
            after == remove_location(
                         remove_location([self |-> Self, removed_cards |-> <<>>], a), b)
        IN  /\ IF ret'
               THEN /\ gone = 2
                    /\ \A rc \in Cells : pyramid'.rows[rc] \in {pyramid.rows[rc], None}
                    /\ waste' \in {waste, SubSeq(waste, 1, Len(waste) - 1)}
               ELSE pyramid' = pyramid /\ waste' = waste
            /\ passes => (Len(after.removed_cards) = 2 /\ ret')]_vars

\* C18's case: a remove_pair of the waste top, named first, with a pyramid
\* card has just met the four conditions and returned true.
C18_Witness ==
    /\ cmd = "remove_pair" /\ ret
    /\ first[1] = "waste" /\ second[1] = "pyramid"
    /\ Len(history[Len(history)].payload.cards) = 2

\* The card a move records for a pyramid cell, None if it records none.
RecordedCard(move, rc) ==
    IF move.type = "remove_king_pyramid"
    THEN IF <<move.payload.row, move.payload.col>> = rc THEN move.payload.card ELSE None
    ELSE IF move.type = "remove_pair"
    THEN LET entries == {i \in 1..Len(move.payload.cards) :
                            /\ move.payload.cards[i][1] = "pyramid"
                            /\ <<move.payload.cards[i][2], move.payload.cards[i][3]>> = rc}
         IN  IF entries = {} THEN None
             ELSE move.payload.cards[CHOOSE i \in entries : TRUE][4]
    ELSE None

\* C19: draw, redeal, remove_king and remove_pair, returning true or false,
\* never fill an empty pyramid cell and never change the card of an
\* occupied one (they leave a cell or empty it); a successful undo() refills
\* exactly the cells its move records, each with the card recorded for it,
\* and leaves the others; so that has_won(), once true, stays true until an
\* undo or a reset.
C19_RemovalMonotonic ==
    [][/\ cmd' \in {"draw", "redeal", "remove_king", "remove_pair"} =>
              /\ \A rc \in Cells : pyramid'.rows[rc] \in {pyramid.rows[rc], None}
              /\ has_won(Self) => has_won(Self')
       /\ cmd' = "undo" =>
              IF ret'
              THEN \A rc \in Cells :
                       pyramid'.rows[rc] =
                           IF RecordedCard(history[Len(history)], rc) # None
                           THEN RecordedCard(history[Len(history)], rc)
                           ELSE pyramid.rows[rc]
              ELSE pyramid' = pyramid]_vars

\* C19's case: in a won game a draw has just returned true, and the game is
\* still won.
C19_Witness ==
    /\ cmd = "draw" /\ ret
    /\ \A rc \in Cells : pyramid.rows[rc] = None
    /\ has_won(Self)

\* C20: when a remove_king or remove_pair call makes has_won() change from
\* false to true, the undo() called right after it returns true and leaves
\* has_won() false (the object as it was before the call); and in a won
\* game every command whose own condition holds still returns true: undo
\* with a move in history, draw with a card in the stock, redeal with
\* redeals_used < max_redeals and a card on the waste, remove_king on a
\* waste top that is a King.
C20_WonNotAbsorbing ==
    [][/\ (cmd' \in {"remove_king", "remove_pair"} /\ ~has_won(Self) /\ has_won(Self')) =>
              /\ undo(Self') = Return(Self, TRUE)
              /\ ~has_won(undo(Self').self)
       /\ has_won(Self') =>
              /\ undo(Self').ret <=> history' # <<>>
              /\ draw(Self').ret <=> stock' # <<>>
              /\ redeal(Self').ret <=> (redeals_used' < max_redeals' /\ waste' # <<>>)
              /\ (waste' # <<>> /\ value(waste'[Len(waste')]) = 13) =>
                     remove_king(Self', <<"waste", Len(waste') - 1, 0>>).ret]_vars

\* C20's case: a removal from the pyramid has just won the game, and the
\* undo() called now would return true and leave a game that is not won.
C20_Witness ==
    /\ cmd \in {"remove_king", "remove_pair"} /\ ret
    /\ history[Len(history)].type \in {"remove_king_pyramid", "remove_pair"}
    /\ has_won(Self)
    /\ undo(Self).ret
    /\ ~has_won(undo(Self).self)


\* C21: right after an undo() that returns true, legal_moves_remaining()
\* returns true; so that in a state where legal_moves_remaining() returns
\* false and history is not empty, one undo() leaves a state where it
\* returns true.
C21_UndoReopens ==
    [][/\ (cmd' = "undo" /\ ret') => legal_moves_remaining(Self').ret
       /\ (~legal_moves_remaining(Self').ret /\ history' # <<>>) =>
              /\ undo(Self').ret
              /\ legal_moves_remaining(undo(Self').self).ret]_vars

\* C21's case: an undo has just returned true with the stock empty and no
\* redeal left, out of a lost game: the draw of the last card, which can be
\* made again, leaves legal_moves_remaining() false with cards in the
\* pyramid.
C21_Witness ==
    /\ cmd = "undo" /\ ret
    /\ legal_moves_remaining(Self).ret
    /\ Len(stock) = 1
    /\ redeals_used = max_redeals
    /\ draw(Self).ret
    /\ ~legal_moves_remaining(draw(Self).self).ret
    /\ ~has_won(Self)


C23_BottomUpShape ==
    \A rc \in Cells :
        (rc[1] < 6 /\ pyramid.rows[rc] = None) =>
            /\ pyramid.rows[<<rc[1] + 1, rc[2]>>] = None
            /\ pyramid.rows[<<rc[1] + 1, rc[2] + 1>>] = None

\* C23's case: an undo has just put a card back, with a cell of the fourth
\* row or higher empty (and so the nine cells below it) and the top card in
\* place.
C23_Witness ==
    /\ cmd = "undo" /\ ret
    /\ \E rc \in Cells : rc[1] <= 3 /\ pyramid.rows[rc] = None
    /\ pyramid.rows[<<0, 0>>] # None


\* The cards on the board: in the occupied pyramid cells, in the stock and
\* on the waste.
CardsOnBoard ==
    {pyramid.rows[rc] : rc \in OccupiedCells}
        \cup {stock[i] : i \in 1..Len(stock)}
        \cup {waste[i] : i \in 1..Len(waste)}

\* C24: in every reachable state the cards in the occupied pyramid cells,
\* in the stock and on the waste are pairwise distinct (by rank and suit)
\* and all belong to the 52 cards dealt at the last reset; after a redeal,
\* the undo of a redeal and the undo of removals too.
C24_NoDuplicates ==
    /\ Cardinality(CardsOnBoard) = Cardinality(OccupiedCells) + Len(stock) + Len(waste)
    /\ CardsOnBoard \subseteq {Deck(seed)[i] : i \in 1..52}
    /\ Cardinality({Deck(seed)[i] : i \in 1..52}) = 52

\* C24's case: an undo has just taken back a redeal made with the stock
\* empty, after cards left the pyramid and the waste: the stock is empty
\* again and the waste is back.
C24_Witness ==
    /\ cmd = "undo" /\ ret
    /\ max_redeals = 1 /\ redeals_used = 0
    /\ stock = <<>> /\ waste # <<>>
    /\ removed_count >= 1
    /\ WasteCardsRemoved(history) >= 1
    /\ redeal(Self).ret


\* The pyramid cards the removals recorded in a history took: one for each
\* remove_king_pyramid move, one for each pyramid entry of a remove_pair
\* move.
RECURSIVE PyramidCardsRemoved(_)
PyramidCardsRemoved(moves) ==
    IF moves = <<>> THEN 0
    ELSE LET move == Last(moves)
             here == IF move.type = "remove_king_pyramid" THEN 1
                     ELSE IF move.type = "remove_pair"
                          THEN Cardinality({i \in 1..Len(move.payload.cards) :
                                               move.payload.cards[i][1] = "pyramid"})
                          ELSE 0
         IN  here + PyramidCardsRemoved(ButLast(moves))

\* C25: in every reachable state the occupied pyramid cells, the stock, the
\* waste and the cards recorded in the remove_king_pyramid,
\* remove_king_waste and remove_pair moves of history add up to 52, and
\* removed_count is the number of pyramid cards recorded in those moves.
C25_HistoryConservation ==
    /\ Cardinality(OccupiedCells) + Len(stock) + Len(waste)
           + PyramidCardsRemoved(history) + WasteCardsRemoved(history) = 52
    /\ removed_count = PyramidCardsRemoved(history)

\* C25's case: an undo has just returned true and left a history with
\* moves of the three removing types, which took ten pyramid cards or more
\* and three waste cards or more.
C25_Witness ==
    /\ cmd = "undo" /\ ret
    /\ {"remove_king_pyramid", "remove_king_waste", "remove_pair"} \subseteq MoveTypes
    /\ PyramidCardsRemoved(history) >= 10
    /\ WasteCardsRemoved(history) >= 3


\* The moves of a type in history.
MovesOfType(type) == Cardinality({i \in 1..Len(history) : history[i].type = type})

\* What is left to play: 25 for each redeal left, 1 for each card in the
\* stock and 1 for each card on the board.
MovesLeft ==
    25 * (max_redeals - redeals_used) + Len(stock)
        + Cardinality(OccupiedCells) + Len(stock) + Len(waste)

\* C26: play without undo and reset ends.  Every draw, redeal, remove_king
\* and remove_pair that returns true makes MovesLeft smaller, and it is
\* never negative; a history holds at most 24 * (max_redeals + 1) draws,
\* max_redeals redeals and removals of 52 cards; and when a command that
\* returns true is called as long as there is one, a state where
\* legal_moves_remaining() returns false is reached.
C26_PlayTerminates ==
    /\ [][(cmd' \in {"draw", "redeal", "remove_king", "remove_pair"} /\ ret') =>
              (0 <= MovesLeft' /\ MovesLeft' < MovesLeft)]_vars
    /\ [](/\ MovesOfType("draw") <= 24 * (max_redeals + 1)
          /\ MovesOfType("redeal") <= max_redeals
          /\ PyramidCardsRemoved(history) + WasteCardsRemoved(history) <= 52)
    /\ <>(~legal_moves_remaining(Self).ret)

\* C26's case: the play of a game with one redeal has come to its end
\* after sixty moves or more, the redeal among them: no command returns
\* true and legal_moves_remaining() returns false.
C26_Witness ==
    /\ ~legal_moves_remaining(Self).ret
    /\ max_redeals = 1
    /\ MovesOfType("redeal") = 1
    /\ Len(history) >= 60
    /\ ~draw(Self).ret /\ ~redeal(Self).ret /\ ~RemovalOffered


\* C27: the assertion of undo_draw holds whenever undo() pops a draw move:
\* in every reachable state no call has raised, undo() would not raise,
\* and if the last move of history is a draw the waste is not empty and
\* its top is the card that move records.
C27_UndoDrawAssertion ==
    /\ ~raised
    /\ ~undo(Self).raised
    /\ (history # <<>> /\ history[Len(history)].type = "draw") =>
           /\ waste # <<>>
           /\ waste[Len(waste)] = history[Len(history)].payload.card

\* C27's case: an undo has just returned true and left the draw of a King
\* as the last move, the King on top of the waste, where a remove_king
\* (whatever waste index it names) takes it and a further undo() pops the
\* draw.
C27_Witness ==
    /\ cmd = "undo" /\ ret
    /\ Len(history) >= 2
    /\ history[Len(history)].type = "draw"
    /\ value(waste[Len(waste)]) = 13
    /\ remove_king(Self, <<"waste", Len(waste), 0>>).ret
    /\ undo(Self).ret

=============================================================================

